---- MODULE Spec2Model ----
(***************************************************************************)
(* Three Men's Morris (src/ThreeMensMorris.cpp): the game state kept by    *)
(* main, the click handler handleEvents, the per-frame updateTokens, and   *)
(* the prime-product win test.                                             *)
(*                                                                         *)
(* A mouse click is modelled by the region it lands in.  startButtonBounds *)
(* is a function of phase (every assignment to phase is paired with one to *)
(* startButtonBounds), so it is not kept as a variable.  A stationary      *)
(* token's sprite covers exactly the 50x50 area of its slot (both start at *)
(* slots[i].position - (25,25)); a moving token's sprite is somewhere on   *)
(* the segment between two adjacent slots.                                 *)
(*                                                                         *)
(* Closing the window (sf::Event::Closed, or a click on exitButtonBounds   *)
(* in phase Win) ends main's loop and with it every variable modelled      *)
(* here: it is the behaviour that stutters from that point on, which Spec  *)
(* allows in every state.                                                  *)
(***************************************************************************)
EXTENDS Integers, Sequences, FiniteSets, TLC

VARIABLES
    phase,       \* GamePhase phase                      (main, line 450)
    turn,        \* Player turn                          (main, line 449)
    tokens,      \* std::vector<Token> tokens            (main, line 447)
    selected,    \* Token* selected: index into tokens, 0 = nullptr (line 448)
    placedA,     \* int placedA                          (line 451)
    placedB,     \* int placedB                          (line 451)
    winner,      \* spritesMap["winner"]: "none", "A" or "B" (lines 295, 361, 445)
    winOwner,    \* the player argument of the last checkWin call that returned true
    moves,       \* number of slides begun since the last resetGame (bounds the model)
    occ,         \* WinSpec: the set of slots handed to checkWin
    ubMode,      \* WinSpec: what the build does on signed overflow
    hasWon,      \* WinSpec: the outcome of checkWin on occ ("none" before the call)
    adjA,        \* AdjSpec: the argument a of isAdjacent
    adjB,        \* AdjSpec: the argument b of isAdjacent
    adjResult    \* AdjSpec: what isAdjacent returned (done = FALSE before the call)

vars == <<phase, turn, tokens, selected, placedA, placedB, winner, winOwner,
          moves, occ, ubMode, hasWon, adjA, adjB, adjResult>>

gameVars == <<phase, turn, tokens, selected, placedA, placedB, winner, winOwner,
              moves>>

winVars == <<occ, ubMode, hasWon>>

adjVars == <<adjA, adjB, adjResult>>

\* the variables of the pure-function specifications
pureVars == <<winVars, adjVars>>

----------------------------------------------------------------------------
(* Bounds of the model *)

\* an accepted placement click lands on one of the first PlaceChoices free
\* slots (in index order); clicks on occupied slots are not restricted
PlaceChoices == 2

\* at most MaxMoves slides are begun between two resets
MaxMoves == 2

\* a frame advances a sliding token by 1 .. MaxStep slot pitches
MaxStep == 2

----------------------------------------------------------------------------
(* Board model *)

NumSlots == 9

Slots == 0 .. (NumSlots - 1)

Players == {"A", "B"}

primeWide(i) ==
    1000 * (CASE i = 0 -> 13 [] i = 1 -> 3  [] i = 2 -> 23
              [] i = 3 -> 17 [] i = 4 -> 11 [] i = 5 -> 5
              [] i = 6 -> 29 [] i = 7 -> 7  [] i = 8 -> 19)

\* slots[i].prime
prime(i) ==
    CASE i = 0 -> 13 [] i = 1 -> 3  [] i = 2 -> 23
      [] i = 3 -> 17 [] i = 4 -> 11 [] i = 5 -> 5
      [] i = 6 -> 29 [] i = 7 -> 7  [] i = 8 -> 19

winCombosNoDiagonals ==
    << <<0,1,2>>, <<3,4,5>>, <<6,7,8>>,
       <<0,3,6>>, <<1,4,7>>, <<2,5,8>> >>

winCombos ==
    << <<0,1,2>>, <<3,4,5>>, <<6,7,8>>,
       <<0,3,6>>, <<1,4,7>>, <<2,5,8>>,
       <<0,4,8>>, <<2,4,6>> >>

adjacentSkewed(a) ==
    CASE a = 0 -> <<1, 3, 4>>
      [] a = 1 -> <<0, 2, 4>>
      [] a = 2 -> <<1, 5, 4>>
      [] a = 3 -> <<0, 4, 6>>
      [] a = 4 -> <<0, 1, 2, 3, 5, 6, 7, 8>>
      [] a = 5 -> <<2, 4, 8>>
      [] a = 6 -> <<3, 4, 7>>
      [] a = 7 -> <<6, 4, 8>>
      [] a = 8 -> <<4, 5, 6>>

\* the table `adjacent` of isAdjacent
adjacent(a) ==
    CASE a = 0 -> <<1, 3, 4>>
      [] a = 1 -> <<0, 2, 4>>
      [] a = 2 -> <<1, 5, 4>>
      [] a = 3 -> <<0, 4, 6>>
      [] a = 4 -> <<0, 1, 2, 3, 5, 6, 7, 8>>
      [] a = 5 -> <<2, 4, 8>>
      [] a = 6 -> <<3, 4, 7>>
      [] a = 7 -> <<6, 4, 8>>
      [] a = 8 -> <<4, 5, 7>>

isAdjacent(a, b) == \E k \in 1 .. Len(adjacent(a)) : adjacent(a)[k] = b

\* Length of the slide from slot a to slot b in slot pitches (250 px), rounded
\* up: slots[].position lies on a 3x3 grid, so an adjacent pair is 250 px
\* apart along a row or column and 353.6 px apart along a diagonal.
SlideLen(a, b) ==
    IF (a % 3 = b % 3) \/ (a \div 3 = b \div 3) THEN 1 ELSE 2

----------------------------------------------------------------------------
(* Win detector: 32-bit int arithmetic *)

\* the element of a one-element set
Only(S) == CHOOSE x \in S : TRUE

\* 2^16
Half == 256 * 256

\* a * q in two's-complement 32-bit arithmetic, for 0 < q < 2^10; computed on
\* 16-bit halves so that no intermediate value leaves the 32-bit range
MulWrap(a, q) ==
    LET hi0  == a \div Half
        hi   == IF hi0 < 0 THEN hi0 + Half ELSE hi0
        lo   == a % Half
        L    == lo * q
        nlo  == L % Half
        nhi  == (hi * q + (L \div Half)) % Half
    IN  IF nhi >= Half \div 2 THEN (nhi - Half) * Half + nlo
                              ELSE nhi * Half + nlo

\* whether a * q leaves the range of int, for a >= 0 and 0 < q < 2^10
MulOverflows(a, q) ==
    LET L == (a % Half) * q
    IN  (a \div Half) * q + (L \div Half) >= Half \div 2

\* computeWinProducts(winCombos, slots)
computeWinProducts ==
    [k \in 1 .. Len(winCombos) |->
        MulWrap(MulWrap(prime(winCombos[k][1]), prime(winCombos[k][2])),
                prime(winCombos[k][3]))]

winProducts == computeWinProducts

\* one iteration of the loop of checkWin, on the running product r =
\* [val |-> product, ovf |-> some multiplication left the range of int]
productStep(r, t, player) ==
    IF t.owner = player /\ t.slotIndex # -1
    THEN [val |-> MulWrap(r.val, prime(t.slotIndex)),
          ovf |-> r.ovf \/ r.val < 0 \/ MulOverflows(r.val, prime(t.slotIndex))]
    ELSE r

\* the loop of checkWin over tokens 1 .. n (the running product is bound by
\* a set constructor so that each iteration is evaluated once)
RECURSIVE playerProduct(_, _, _)
playerProduct(toks, player, n) ==
    IF n = 0 THEN [val |-> 1, ovf |-> FALSE]
    ELSE Only({productStep(r, toks[n], player) :
                  r \in {playerProduct(toks, player, n - 1)}})

DividesSomeRowOrColumn(product) ==
    \E k \in 1 .. 6 : product % winProducts[k] = 0

\* the divisibility loop of checkWin
DividesSome(product) ==
    \E k \in 1 .. Len(winProducts) : product % winProducts[k] = 0

checkWin(toks, player) ==
    \E product \in {playerProduct(toks, player, Len(toks)).val} : DividesSome(product)

----------------------------------------------------------------------------
(* Token registry and free-slot query *)

Other(p) == IF p = "A" THEN "B" ELSE "A"

nextTurnStuck(t) == t

\* turn = (turn == Player::A ? Player::B : Player::A)
nextTurn(t) == Other(t)

\* Token t with owner and slotIndex set (handleEvents, placement branch)
NewToken(owner, slot) ==
    [owner |-> owner, slotIndex |-> slot, nextSlotIndex |-> -1,
     selected |-> FALSE, moving |-> FALSE, dist |-> 0]

getFreeSlotIgnoringReservations(S, toks) ==
    IF \E i \in 1 .. Len(toks) : toks[i].slotIndex = S THEN -1 ELSE S

\* getFreeSlotUnderMouse for a click inside the area of slot S
getFreeSlotUnderMouse(S, toks) ==
    IF \E i \in 1 .. Len(toks) :
          toks[i].slotIndex = S \/ (toks[i].moving /\ toks[i].nextSlotIndex = S)
    THEN -1 ELSE S

AnyTokenAt(S) ==
    LET hit == {i \in 1 .. Len(tokens) : ~tokens[i].moving /\ tokens[i].slotIndex = S}
    IN  IF hit = {} THEN 0 ELSE CHOOSE i \in hit : \A j \in hit : i <= j

\* the first token of the player to move whose sprite contains a click inside
\* the area of slot S (0 if none): the loop of handleEvents, lines 312-320
OwnTokenAt(S) ==
    LET hit == {i \in 1 .. Len(tokens) :
                   tokens[i].owner = turn /\ ~tokens[i].moving /\ tokens[i].slotIndex = S}
    IN  IF hit = {} THEN 0 ELSE CHOOSE i \in hit : \A j \in hit : i <= j

\* selection of token i: lines 314-317
Select(toks, sel, i) ==
    LET cleared == IF sel # 0 THEN [toks EXCEPT ![sel].selected = FALSE] ELSE toks
    IN  [cleared EXCEPT ![i].selected = TRUE]

MoveAcceptedAnywhere(sel, toks, S) ==
    /\ sel # 0
    /\ ~toks[sel].moving
    /\ getFreeSlotUnderMouse(S, toks) # -1

\* the guards of lines 322-324 for a click inside the area of slot S that hit
\* no token of the player to move
MoveAccepted(sel, toks, S) ==
    /\ sel # 0
    /\ ~toks[sel].moving
    /\ getFreeSlotUnderMouse(S, toks) # -1
    /\ isAdjacent(toks[sel].slotIndex, getFreeSlotUnderMouse(S, toks))

\* lines 326-329
BeginMove(toks, sel, target) ==
    [toks EXCEPT ![sel].moving = TRUE,
                 ![sel].nextSlotIndex = target,
                 ![sel].dist = SlideLen(toks[sel].slotIndex, target),
                 ![sel].selected = FALSE]

----------------------------------------------------------------------------
(* updateTokens *)

\* dist < speed * dt
Arrives(dist, step) == dist < step

AdvanceStalled(dist, step) == dist

\* t.sprite.move(dir / dist * speed * dt): the distance left afterwards
Advance(dist, step) == dist - step

\* lines 354-357: token i has arrived
CompleteMove(toks, i) ==
    [toks EXCEPT ![i].slotIndex = toks[i].nextSlotIndex,
                 ![i].moving = FALSE,
                 ![i].nextSlotIndex = -1,
                 ![i].dist = 0]

\* lines 359-367, on the loop's running state st: toks2 is the token vector
\* after the arrival, win the outcome of checkWin for the owner
AfterArrival(st, toks2, owner, win) ==
    [tokens   |-> toks2,
     phase    |-> IF win THEN "Win" ELSE st.phase,
     winner   |-> IF win THEN st.turn ELSE st.winner,
     winOwner |-> IF win THEN owner ELSE st.winOwner,
     selected |-> 0,
     turn     |-> nextTurn(st.turn)]

\* one iteration of the loop of updateTokens, on the loop's running state
UpdateOne(st, i, step) ==
    IF ~st.tokens[i].moving THEN st
    ELSE IF Arrives(st.tokens[i].dist, step)
    THEN Only({AfterArrival(st, toks2, toks2[i].owner, win) :
                  <<toks2, win>> \in
                      {<<tk, checkWin(tk, tk[i].owner)>> :
                          tk \in {CompleteMove(st.tokens, i)}}})
    ELSE [st EXCEPT !.tokens[i].dist = Advance(st.tokens[i].dist, step)]

RECURSIVE UpdateUpTo(_, _, _)
UpdateUpTo(st, n, step) ==
    IF n = 0 THEN st
    ELSE Only({UpdateOne(prev, n, step) : prev \in {UpdateUpTo(st, n - 1, step)}})

\* updateTokens(tokens, dt, speed, turn, selected, window, winProducts, phase)
updateTokens(step) ==
    UpdateUpTo([tokens |-> tokens, phase |-> phase, winner |-> winner,
                winOwner |-> winOwner, selected |-> selected, turn |-> turn],
               Len(tokens), step)

ApplyUpdate(step) ==
    \E r \in {updateTokens(step)} :
    /\ tokens' = r.tokens
    /\ phase' = r.phase
    /\ winner' = r.winner
    /\ winOwner' = r.winOwner
    /\ selected' = r.selected
    /\ turn' = r.turn

----------------------------------------------------------------------------
(* resetGame and handleEvents *)

resetGameKeepingTurn ==
    /\ phase' = IF phase = "Win" THEN "Start" ELSE "Placement"
    /\ tokens' = <<>>
    /\ placedA' = 0
    /\ placedB' = 0
    /\ turn' = turn
    /\ selected' = 0
    /\ moves' = 0
    /\ UNCHANGED <<winner, winOwner>>

resetGameKeepingBoard ==
    /\ phase' = IF phase = "Win" THEN "Start" ELSE "Placement"
    /\ turn' = "A"
    /\ moves' = 0
    /\ UNCHANGED <<tokens, placedA, placedB, selected, winner, winOwner>>

\* resetGame(tokens, placedA, placedB, turn, phase, selected)
resetGame ==
    /\ phase' = IF phase = "Win" THEN "Start" ELSE "Placement"
    /\ tokens' = <<>>
    /\ placedA' = 0
    /\ placedB' = 0
    /\ turn' = "A"
    /\ selected' = 0
    /\ moves' = 0
    /\ UNCHANGED <<winner, winOwner>>

\* a click inside startButtonBounds in phase Instructions or About
Back ==
    /\ phase \in {"Instructions", "About"}
    /\ phase' = "Start"
    /\ UNCHANGED <<turn, tokens, selected, placedA, placedB, winner, winOwner, moves>>
    /\ UNCHANGED pureVars

\* a click inside startButtonBounds in phase Start
BeginGame ==
    /\ phase = "Start"
    /\ phase' = "Placement"
    /\ UNCHANGED <<turn, tokens, selected, placedA, placedB, winner, winOwner, moves>>
    /\ UNCHANGED pureVars

\* a click inside startButtonBounds in any other phase
Reset ==
    /\ phase \in {"Placement", "Movement", "Win"}
    /\ resetGame
    /\ UNCHANGED pureVars

\* a click inside instructionsButtonBounds in phase Start
NavigateInstructions ==
    /\ phase = "Start"
    /\ phase' = "Instructions"
    /\ UNCHANGED <<turn, tokens, selected, placedA, placedB, winner, winOwner, moves>>
    /\ UNCHANGED pureVars

\* a click inside aboutButtonBounds in phase Start
NavigateAbout ==
    /\ phase = "Start"
    /\ phase' = "About"
    /\ UNCHANGED <<turn, tokens, selected, placedA, placedB, winner, winOwner, moves>>
    /\ UNCHANGED pureVars

phaseBranchWinPlays(ph) ==
    IF ph = "Placement" THEN "place"
    ELSE IF ph \in {"Movement", "Win"} THEN "move"
    ELSE "none"

\* the branch of handleEvents a click on the board takes: if (phase ==
\* Placement) ... else if (phase == Movement) ..., lines 281 and 310
phaseBranch(ph) ==
    IF ph = "Placement" THEN "place"
    ELSE IF ph = "Movement" THEN "move"
    ELSE "none"

PlacementDoneEarly(a, b) == a = 3

\* placedA == 3 && placedB == 3 (line 302)
PlacementDone(a, b) == a = 3 /\ b = 3

\* the number of free slots with a smaller index than S
FreeRank(S) ==
    Cardinality({s \in Slots : s < S /\ getFreeSlotUnderMouse(s, tokens) # -1})

\* a click inside the area of slot S in phase Placement
PlaceAt(S) ==
    /\ phaseBranch(phase) = "place"
    /\ getFreeSlotUnderMouse(S, tokens) = -1 \/ FreeRank(S) < PlaceChoices
    /\ LET slot == getFreeSlotUnderMouse(S, tokens) IN
       IF slot = -1
       THEN UNCHANGED gameVars
       ELSE LET toks2 == Append(tokens, NewToken(turn, slot)) IN
            /\ tokens' = toks2
            /\ IF checkWin(toks2, turn)
               THEN /\ winner' = turn
                    /\ winOwner' = turn
                    /\ phase' = "Win"
                    /\ UNCHANGED <<turn, placedA, placedB>>
               ELSE /\ placedA' = IF turn = "A" THEN placedA + 1 ELSE placedA
                    /\ placedB' = IF turn = "A" THEN placedB ELSE placedB + 1
                    /\ phase' = IF PlacementDone(placedA', placedB')
                                THEN "Movement" ELSE phase
                    /\ turn' = nextTurn(turn)
                    /\ UNCHANGED <<winner, winOwner>>
            /\ UNCHANGED <<selected, moves>>
    /\ UNCHANGED pureVars

\* a click inside the area of slot S, on no sliding sprite, in phase Movement
ClickSlot(S) ==
    /\ phaseBranch(phase) = "move"
    /\ LET i == OwnTokenAt(S) IN
       IF i # 0
       THEN /\ tokens' = Select(tokens, selected, i)
            /\ selected' = i
            /\ UNCHANGED moves
       ELSE IF MoveAccepted(selected, tokens, S)
       THEN /\ moves < MaxMoves
            /\ tokens' = BeginMove(tokens, selected, getFreeSlotUnderMouse(S, tokens))
            /\ moves' = moves + 1
            /\ UNCHANGED selected
       ELSE UNCHANGED <<tokens, selected, moves>>
    /\ UNCHANGED <<phase, turn, placedA, placedB, winner, winOwner>>
    /\ UNCHANGED pureVars

\* a click on the sprite of the sliding token i in phase Movement.  Where the
\* sprite overlaps a slot area, that slot is the token's origin or its
\* destination, so getFreeSlotUnderMouse finds no free slot under the click.
ClickMoving(i) ==
    /\ phaseBranch(phase) = "move"
    /\ i \in 1 .. Len(tokens)
    /\ tokens[i].moving
    /\ IF tokens[i].owner = turn
       THEN /\ tokens' = Select(tokens, selected, i)
            /\ selected' = i
       ELSE UNCHANGED <<tokens, selected>>
    /\ UNCHANGED <<phase, turn, placedA, placedB, winner, winOwner, moves>>
    /\ UNCHANGED pureVars

\* one iteration of main's loop with no event queued: updateTokens
Tick(step) ==
    /\ ApplyUpdate(step)
    /\ UNCHANGED <<placedA, placedB, moves>>
    /\ UNCHANGED pureVars

----------------------------------------------------------------------------
(* The game *)

\* adjResult before isAdjacent has been called
NotCalled == [done |-> FALSE, fwd |-> FALSE, back |-> FALSE, n |-> 0]

\* main, lines 445-451
Init ==
    /\ phase = "Start"
    /\ turn = "A"
    /\ tokens = <<>>
    /\ selected = 0
    /\ placedA = 0
    /\ placedB = 0
    /\ winner = "none"
    /\ winOwner = "none"
    /\ moves = 0
    /\ occ = {}
    /\ ubMode = "wrap"
    /\ hasWon = "none"
    /\ adjA = 0
    /\ adjB = 0
    /\ adjResult = NotCalled

Next ==
    \/ Back
    \/ BeginGame
    \/ Reset
    \/ NavigateInstructions
    \/ NavigateAbout
    \/ \E S \in Slots : PlaceAt(S)
    \/ \E S \in Slots : ClickSlot(S)
    \/ \E i \in 1 .. Len(tokens) : ClickMoving(i)
    \/ \E step \in 1 .. MaxStep : Tick(step)

Spec == Init /\ [][Next]_vars

----------------------------------------------------------------------------
(* The win test as a pure function: checkWin on every set of slots *)

\* a token vector holding one stationary token of Player A per slot of X, in
\* index order
RECURSIVE TokensOn(_)
TokensOn(X) ==
    IF X = {} THEN <<>>
    ELSE LET m == CHOOSE x \in X : \A y \in X : y <= x
         IN  Append(TokensOn(X \ {m}), NewToken("A", m))

\* checkWin(TokensOn(X), Player::A, winProducts).  A multiplication that
\* leaves the range of int is undefined behaviour: the build either wraps
\* (two's complement) or traps, as ubMode says.
checkWinOn(X, mode) ==
    LET r == playerProduct(TokensOn(X), "A", Cardinality(X)) IN
    IF r.ovf /\ mode = "trap" THEN "abort"
    ELSE IF DividesSome(r.val) THEN "true" ELSE "false"

WinInit ==
    /\ phase = "Start"
    /\ turn = "A"
    /\ tokens = <<>>
    /\ selected = 0
    /\ placedA = 0
    /\ placedB = 0
    /\ winner = "none"
    /\ winOwner = "none"
    /\ moves = 0
    /\ occ \in SUBSET Slots
    /\ ubMode \in {"wrap", "trap"}
    /\ hasWon = "none"
    /\ adjA = 0
    /\ adjB = 0
    /\ adjResult = NotCalled

WinCheck ==
    /\ hasWon = "none"
    /\ hasWon' = checkWinOn(occ, ubMode)
    /\ UNCHANGED <<occ, ubMode>>
    /\ UNCHANGED adjVars
    /\ UNCHANGED gameVars

WinNext == WinCheck

WinSpec == WinInit /\ [][WinNext]_vars

----------------------------------------------------------------------------
(* isAdjacent as a pure function: every pair of slots *)

AdjInit ==
    /\ phase = "Start"
    /\ turn = "A"
    /\ tokens = <<>>
    /\ selected = 0
    /\ placedA = 0
    /\ placedB = 0
    /\ winner = "none"
    /\ winOwner = "none"
    /\ moves = 0
    /\ occ = {}
    /\ ubMode = "wrap"
    /\ hasWon = "none"
    /\ adjA \in Slots
    /\ adjB \in Slots
    /\ adjResult = NotCalled

\* isAdjacent(adjA, adjB), isAdjacent(adjB, adjA), and the number of slots b
\* for which isAdjacent(adjA, b) returns true
AdjCheck ==
    /\ ~adjResult.done
    /\ adjResult' = [done |-> TRUE,
                     fwd  |-> isAdjacent(adjA, adjB),
                     back |-> isAdjacent(adjB, adjA),
                     n    |-> Cardinality({b \in Slots : isAdjacent(adjA, b)})]
    /\ UNCHANGED <<adjA, adjB>>
    /\ UNCHANGED winVars
    /\ UNCHANGED gameVars

AdjNext == AdjCheck

AdjSpec == AdjInit /\ [][AdjNext]_vars

----------------------------------------------------------------------------
(* Fair frame ticks: main's loop calls updateTokens once per iteration for *)
(* as long as the window is open                                           *)

FairSpec == Spec /\ WF_vars(\E step \in 1 .. MaxStep : Tick(step))

----------------------------------------------------------------------------
(* Vocabulary of the properties *)

TokenIds == 1 .. Len(tokens)

MovingIds == {i \in TokenIds : tokens[i].moving}

\* the slots of the 8 winning triples, as sets
WinTriples == {{winCombos[k][1], winCombos[k][2], winCombos[k][3]} :
                  k \in 1 .. Len(winCombos)}

HasLine(X) == \E L \in WinTriples : L \subseteq X

\* the slots on which player p has a token at rest
StationarySlots(toks, p) ==
    {toks[i].slotIndex : i \in {j \in 1 .. Len(toks) : toks[j].owner = p /\ ~toks[j].moving}}

\* this step produces a win
BecomesWin == phase # "Win" /\ phase' = "Win"

\* the tokens that arrive in this step
Arrivals ==
    {i \in TokenIds : tokens[i].moving /\ i <= Len(tokens') /\ ~tokens'[i].moving}

\* no token has slotIndex S and no moving token has nextSlotIndex S
SlotIsFree(S) ==
    \A i \in TokenIds :
        tokens[i].slotIndex # S /\ ~(tokens[i].moving /\ tokens[i].nextSlotIndex = S)

\* the slots token i lays claim to
SlotClaims(i) ==
    {tokens[i].slotIndex} \cup (IF tokens[i].moving THEN {tokens[i].nextSlotIndex} ELSE {})

----------------------------------------------------------------------------
(* C1: a step that produces a win (phase becomes Win) leaves turn unchanged *)
C1_TurnKeptOnWin == [][BecomesWin => turn' = turn]_vars

(* C2: whenever phase becomes Win, the winner banner names the owner of the
   token whose placement or arrival completed the line *)
C2_WinnerIsOwner == [][BecomesWin => winner' = winOwner']_vars

(* C3: at most one token has moving = TRUE *)
C3_AtMostOneMoving == Cardinality(MovingIds) <= 1

(* C4: at most one claim per slot: the slotIndex values, and the
   nextSlotIndex values of the moving tokens, of distinct tokens are all
   different *)
C4_OneClaimPerSlot ==
    \A i \in TokenIds : \A j \in TokenIds :
        i # j => SlotClaims(i) \cap SlotClaims(j) = {}

\* two slides under way at once, each with its own reserved destination
C4_Witness ==
    /\ Cardinality(MovingIds) = 2
    /\ \A i \in MovingIds : tokens[i].nextSlotIndex \in Slots

(* C5: at most one token has selected = TRUE, and a token with selected =
   TRUE is owned by the player to move *)
C5_SelectionFlag ==
    /\ Cardinality({i \in TokenIds : tokens[i].selected}) <= 1
    /\ \A i \in TokenIds : tokens[i].selected => tokens[i].owner = turn

(* C6: a win is declared only on a line of tokens at rest: when phase
   becomes Win, the stationary tokens of the player whose check succeeded
   hold a winning triple *)
C6_WinOnStationaryLine ==
    [][BecomesWin => HasLine(StationarySlots(tokens', winOwner'))]_vars

\* the conditions of C7 for a click on slot S
C7_Conditions(S) ==
    /\ selected # 0
    /\ ~tokens[selected].moving
    /\ SlotIsFree(S)
    /\ S \in {adjacent(tokens[selected].slotIndex)[k] :
                 k \in 1 .. Len(adjacent(tokens[selected].slotIndex))}

\* token i starts moving toward S in this step
C7_Starts(i, S) ==
    /\ i \in TokenIds /\ i <= Len(tokens')
    /\ ~tokens[i].moving
    /\ tokens'[i].moving
    /\ tokens'[i].nextSlotIndex = S

(* C7: in Movement a click on slot S starts a move of the selected token
   toward S if and only if a token is selected (the selected reference is
   set), it is not moving, S is free and S is adjacent to its slot; no
   token starts moving in any other case *)
C7_MoveIff ==
    [][/\ \A S \in Slots :
            (phase = "Movement" /\ C7_Conditions(S) /\ ClickSlot(S))
                => C7_Starts(selected, S)
       /\ \A i \in TokenIds : \A S \in Slots :
            C7_Starts(i, S) => (phase = "Movement" /\ i = selected /\ C7_Conditions(S))
      ]_vars

\* a slide has just been accepted
C7_Witness ==
    /\ phase = "Movement"
    /\ selected # 0
    /\ tokens[selected].moving
    /\ ~tokens[selected].selected
    /\ tokens[selected].dist = SlideLen(tokens[selected].slotIndex,
                                        tokens[selected].nextSlotIndex)

InTransit(i, S) ==
    i \in TokenIds /\ tokens[i].moving /\ tokens[i].nextSlotIndex = S

\* token i is at rest on slot S
AtRestOn(i, S) ==
    i \in TokenIds /\ ~tokens[i].moving /\ tokens[i].slotIndex = S

(* C9, as claimed: no intent interrupts or cancels a slide: a token in
   transit toward S is, after every step, still in transit toward S or at
   rest on S *)
C9_NoIntentCancels ==
    [][\A i \in TokenIds : \A S \in Slots :
          InTransit(i, S) => (InTransit(i, S)' \/ AtRestOn(i, S)')]_vars

(* C9, amended: only a Reset (which empties the token collection) ends a
   slide early, and under fair frame ticks no slide lasts forever: every
   token in transit toward S comes to rest on S unless a Reset empties the
   collection first.  (P ~> ~P is []<>~P; i ranges over the 6 tokens a game
   can hold.) *)
C9_SlideCompletesUnlessReset ==
    /\ [][\A i \in TokenIds : \A S \in Slots :
            InTransit(i, S) =>
                (InTransit(i, S)' \/ AtRestOn(i, S)' \/ tokens' = <<>>)]_vars
    /\ \A i \in 1 .. 6 : []<>(~(i \in TokenIds /\ tokens[i].moving))

\* two slides were begun since the last reset and both have come to rest
C9_Witness ==
    /\ tokens # <<>>
    /\ moves = 2
    /\ MovingIds = {}

(* C10: a placement that does not produce a win switches the turn; every
   arrival that does not produce a win switches the turn exactly once (so
   a frame with n arrivals and no win switches it n times); the sixth
   non-winning placement of a game hands the turn back to Player A *)
C10_TurnAlternates ==
    [][/\ (phase = "Placement" /\ Len(tokens') = Len(tokens) + 1 /\ phase' # "Win")
            => turn' = Other(turn)
       /\ (Arrivals # {} /\ phase' # "Win")
            => turn' = IF Cardinality(Arrivals) % 2 = 1 THEN Other(turn) ELSE turn
       /\ (phase = "Placement" /\ phase' = "Movement")
            => (Len(tokens') = 6 /\ turn' = "A")
       /\ phase = "Placement"
            => (turn = IF Len(tokens) % 2 = 0 THEN "A" ELSE "B")
      ]_vars

\* Player A's slide has arrived without a win and the turn went to Player B
C10_Witness ==
    /\ phase = "Movement"
    /\ turn = "B"
    /\ moves = 1
    /\ MovingIds = {}

\* the tokens of player p
TokensOf(p) == {i \in TokenIds : tokens[i].owner = p}

\* the placement count of player p
placed(p) == IF p = "A" THEN placedA ELSE placedB

\* this step adds a token to the collection
TokenCreated == Len(tokens') = Len(tokens) + 1

(* C11: each player owns at most 3 tokens and placedA, placedB are in 0..3;
   the phase is Movement only when both players have exactly 3 tokens on the
   board; a placement is only accepted for a player who has placed fewer
   than 3 tokens *)
C11_ThreeTokensEach ==
    /\ [](/\ \A p \in Players : Cardinality(TokensOf(p)) <= 3
          /\ placedA \in 0 .. 3
          /\ placedB \in 0 .. 3
          /\ phase = "Movement" =>
                \A p \in Players :
                    /\ Cardinality(TokensOf(p)) = 3
                    /\ \A i \in TokensOf(p) : tokens[i].slotIndex \in Slots)
    /\ [][TokenCreated =>
            /\ placed(turn) < 3
            /\ tokens'[Len(tokens')].owner = turn
            /\ Cardinality(TokensOf(turn)) < 3]_vars

\* the sixth placement has just opened the Movement phase
C11_Witness ==
    /\ phase = "Movement"
    /\ placedA = 3
    /\ placedB = 3
    /\ moves = 0
    /\ selected = 0

\* the state resetGame leaves behind: no tokens, both counts 0, Player A to
\* move, nothing selected
Cleared ==
    /\ tokens = <<>>
    /\ placedA = 0
    /\ placedB = 0
    /\ turn = "A"
    /\ selected = 0

(* C12: a Reset intent in phase Win sets the phase to Start and a Reset
   intent in Placement or Movement sets it to Placement; in both cases, from
   any reachable state, afterwards the token collection is empty, placedA =
   placedB = 0, turn = Player A and nothing is selected *)
C12_ResetClears ==
    [][Reset =>
        /\ phase \in {"Placement", "Movement", "Win"}
        /\ phase = "Win" => phase' = "Start"
        /\ phase \in {"Placement", "Movement"} => phase' = "Placement"
        /\ Cleared']_vars

\* a game that ended in Win has been reset to the start screen
C12_Witness ==
    /\ phase = "Start"
    /\ winner # "none"
    /\ Cleared

(* C13: immediately after every Start -> Placement transition caused by the
   BeginGame intent the turn is Player A, the token collection is empty,
   both placement counts are 0 and nothing is selected *)
C13_BeginGameStartsClean ==
    [][(phase = "Start" /\ phase' = "Placement") => (BeginGame /\ Cleared')]_vars

\* a new game has been begun after an earlier one ended in Win
C13_Witness ==
    /\ phase = "Placement"
    /\ winner # "none"
    /\ Cleared

\* the game state an intent can change
gameState == <<phase, turn, tokens, selected, placedA, placedB, winner>>

\* a token of player p is at rest on slot S
RestsOn(p, S) == \E i \in TokenIds : tokens[i].owner = p /\ AtRestOn(i, S)

\* a click on slot S in Movement that is an invalid move target: it hits no
\* token of the player to move, and S is occupied, reserved or not adjacent
\* to the slot of the selected token
InvalidTarget(S) ==
    /\ ~RestsOn(turn, S)
    /\ selected # 0
    /\ \/ ~SlotIsFree(S)
       \/ ~isAdjacent(tokens[selected].slotIndex, S)

(* C14: an invalid intent leaves the whole game state unchanged: a placement
   click on an occupied or reserved slot, a move-target click on an
   occupied, reserved or non-adjacent slot (the selection stays as it is),
   and a select click on a token of the player who is not to move.
   (Stated contrapositively: a step that changes the game state is none of
   these clicks.) *)
C14_InvalidIntentIgnored ==
    [][\/ UNCHANGED gameState
       \/ /\ phase = "Placement" =>
                \A S \in Slots : ~SlotIsFree(S) => ~PlaceAt(S)
          /\ phase = "Movement" =>
                /\ \A S \in Slots :
                      (InvalidTarget(S) \/ RestsOn(Other(turn), S)) => ~ClickSlot(S)
                /\ \A i \in MovingIds : tokens[i].owner # turn => ~ClickMoving(i)
      ]_vars

\* a token at rest on slot 0 is selected and the far corner, slot 8, is free
\* (a click on slot 8 is a move to a non-adjacent slot), while a token of the
\* player not to move is still sliding
C14_Witness ==
    /\ phase = "Movement"
    /\ selected # 0
    /\ tokens[selected].owner = turn
    /\ AtRestOn(selected, 0)
    /\ SlotIsFree(8)
    /\ \E i \in MovingIds : tokens[i].owner # turn

\* the tokens whose selected flag is set
FlaggedIds == {i \in TokenIds : tokens[i].selected}

(* C15: once the phase is Win every placement, selection and move intent is
   ignored: as long as the phase stays Win no token is created, no token is
   selected (neither the selected reference nor a selected flag is set) and
   no token is set moving *)
C15_WinFreezesIntents ==
    [][(phase = "Win" /\ phase' = "Win") =>
        /\ Len(tokens') = Len(tokens)
        /\ selected' \in {selected, 0}
        /\ FlaggedIds' \subseteq FlaggedIds
        /\ MovingIds' \subseteq MovingIds]_vars

\* a won game with all 6 tokens on the board and at rest, in which the player
\* to move has a token with a free adjacent slot: clicks that Movement would
\* accept
C15_Witness ==
    /\ phase = "Win"
    /\ Len(tokens) = 6
    /\ MovingIds = {}
    /\ \E i \in TokenIds : \E S \in Slots :
            /\ tokens[i].owner = turn
            /\ SlotIsFree(S)
            /\ isAdjacent(tokens[i].slotIndex, S)

\* row and column of slot a on the 3x3 board
Row(a) == a \div 3

Col(a) == a % 3

\* a and b are next to each other along a row or a column
Orthogonal(a, b) ==
    \/ Row(a) = Row(b) /\ (Col(a) - Col(b)) \in {-1, 1}
    \/ Col(a) = Col(b) /\ (Row(a) - Row(b)) \in {-1, 1}

(* C16: isAdjacent is symmetric and irreflexive over slots 0..8; slot 4 is
   adjacent to all 8 other slots, and every other slot has exactly 3
   neighbours: its two orthogonal neighbours on the perimeter and slot 4 *)
C16_AdjacencyTable ==
    adjResult.done =>
        /\ adjResult.fwd = adjResult.back
        /\ adjA = adjB => ~adjResult.fwd
        /\ adjA = 4 => (adjResult.n = 8 /\ (adjResult.fwd <=> adjB # 4))
        /\ adjA # 4 =>
              /\ adjResult.n = 3
              /\ adjResult.fwd <=>
                    (adjB = 4 \/ (adjB # 4 /\ Orthogonal(adjA, adjB)))
              /\ Cardinality({b \in Slots \ {4} : Orthogonal(adjA, b)}) = 2

\* isAdjacent was asked about an edge slot and the centre
C16_Witness ==
    /\ adjResult.done
    /\ adjA = 7
    /\ adjB = 4
    /\ adjResult.fwd
    /\ adjResult.n = 3

\* val is exactly the product of the primes in the sequence ps (decided by
\* dividing, so that no number larger than val is formed)
RECURSIVE IsProductOf(_, _)
IsProductOf(val, ps) ==
    IF ps = <<>> THEN val = 1
    ELSE /\ val > 0
         /\ val % Head(ps) = 0
         /\ IsProductOf(val \div Head(ps), Tail(ps))

\* the primes checkWin multiplies for player p: one per token of p, in the
\* order of the token vector
RECURSIVE PrimesOf(_, _, _)
PrimesOf(toks, p, n) ==
    IF n = 0 THEN <<>>
    ELSE IF toks[n].owner = p /\ toks[n].slotIndex # -1
         THEN Append(PrimesOf(toks, p, n - 1), prime(toks[n].slotIndex))
         ELSE PrimesOf(toks, p, n - 1)

\* the primes of winning line k
LinePrimes(k) ==
    <<prime(winCombos[k][1]), prime(winCombos[k][2]), prime(winCombos[k][3])>>

(* C17: no arithmetic overflow in win detection: each of the 8 line
   products, and the product checkWin computes for either player in every
   reachable game state, stays below 2^31 and equals the exact product *)
C17_NoOverflow ==
    /\ \A k \in 1 .. Len(winCombos) :
          /\ ~MulOverflows(LinePrimes(k)[1], LinePrimes(k)[2])
          /\ ~MulOverflows(MulWrap(LinePrimes(k)[1], LinePrimes(k)[2]), LinePrimes(k)[3])
          /\ IsProductOf(winProducts[k], LinePrimes(k))
    /\ \A p \in Players :
          \E r \in {playerProduct(tokens, p, Len(tokens))} :
              /\ ~r.ovf
              /\ IsProductOf(r.val, PrimesOf(tokens, p, Len(tokens)))

\* a player holds slots 0, 2 and 6, and checkWin's product for that player
\* is 13 * 23 * 29
C17_Witness ==
    \E p \in Players :
        /\ {tokens[i].slotIndex : i \in TokensOf(p)} = {0, 2, 6}
        /\ playerProduct(tokens, p, Len(tokens)).val = 13 * 23 * 29

\* the slotIndex values of the tokens of player p
SlotsOf(p) == {tokens[i].slotIndex : i \in TokensOf(p)}

(* C18: a completed line is never left undetected: while the phase is
   Placement or Movement neither player's set of slotIndex values contains
   one of the 8 winning triples *)
C18_NoUndetectedLine ==
    phase \in {"Placement", "Movement"} =>
        \A p \in Players : ~HasLine(SlotsOf(p))

\* a line through the centre was completed by a slide and the phase is Win
C18_Witness ==
    /\ phase = "Win"
    /\ moves > 0
    /\ \E p \in Players : \E L \in WinTriples : 4 \in L /\ L \subseteq SlotsOf(p)

\* token i has a free slot next to it
CanMove(i) ==
    \E S \in Slots : SlotIsFree(S) /\ isAdjacent(tokens[i].slotIndex, S)

(* C19: the Movement phase never deadlocks: in Movement with no token in
   transit the player to move owns a token that has a free adjacent slot *)
C19_NoDeadlock ==
    (phase = "Movement" /\ MovingIds = {}) =>
        \E i \in TokensOf(turn) : CanMove(i)

\* Movement, nothing in transit, and one token of the player to move is
\* hemmed in while another can still move
C19_Witness ==
    /\ phase = "Movement"
    /\ MovingIds = {}
    /\ \E i \in TokensOf(turn) : ~CanMove(i)
    /\ \E i \in TokensOf(turn) : CanMove(i)

\* the slotIndex and moving flag of every token
Positions == [i \in TokenIds |-> <<tokens[i].slotIndex, tokens[i].moving>>]

(* C20: the Win state is stable: no token is in transit while the phase is
   Win, and as long as the phase stays Win the recorded winner, the turn and
   every token's slotIndex and moving flag stay unchanged *)
C20_WinIsStable ==
    /\ [](phase = "Win" => MovingIds = {})
    /\ [][(phase = "Win" /\ phase' = "Win") =>
            /\ winner' = winner
            /\ turn' = turn
            /\ Positions' = Positions]_vars

====
